---- MODULE Spec2Model ----
(***************************************************************************)
(* Model of TileList (src/src/tilelist.cpp): a doubly linked list of       *)
(* TileNode records on a heap of MaxNodes cells, with the two pointers     *)
(* front and back.  Every public member function is one action; the        *)
(* private helpers findTile, detachTile, attachFront and attachBack are    *)
(* operators over a list value [node, front, back, fault].                 *)
(***************************************************************************)
EXTENDS Integers, Sequences, FiniteSets, TLC

\* Number of heap cells available to `new TileNode`.
MaxNodes == 3

\* nullptr
NULL == 0

Addrs == 1..MaxNodes

\* Tiles the callers pass to addFront / addBack: two overlapping squares and
\* one rectangle of non-positive extent, drawn from these coordinate sets.
InputTiles ==
    { [x |-> 0, y |-> 0, width |-> 10, height |-> 10, color |-> "red"],
      [x |-> 5, y |-> 5, width |-> 10, height |-> 10, color |-> "blue"],
      [x |-> 12, y |-> 12, width |-> 0, height |-> -5, color |-> "red"] }

\* Points the callers query: in both squares, in the first only, in the
\* second only.
Points == { <<6, 6>>, <<1, 1>>, <<12, 12>> }

VARIABLES
    node,    \* heap: address -> TileNode cell (live or free)
    front,   \* TileList::front
    back,    \* TileList::back
    fault,   \* "ok", or the kind of undefined behaviour / hang that was hit
    op,      \* name of the last member function called
    ret,     \* its return value ("void" when it returns nothing)
    inflight,\* per caller: the raise / remove call it is in the middle of
    yields   \* TRUE when callers are not serialized (calls may interleave)

vars == <<node, front, back, fault, op, ret, inflight, yields>>

\* Callers that may share the list.
Callers == {1, 2}

\* A caller that is not inside a call.
Idle == [pc |-> "idle", op |-> "", tile |-> NULL]

\* A heap cell that holds no TileNode (never allocated, or deleted).
FreeNode ==
    [live |-> FALSE, x |-> 0, y |-> 0, width |-> 0, height |-> 0,
     color |-> "", prev |-> NULL, next |-> NULL]

\* The list value the operators below transform.
Cur == [node |-> node, front |-> front, back |-> back, fault |-> fault]

\* A pointer that may be dereferenced: non-null and not deleted.
Valid(L, a) == a \in Addrs /\ L.node[a].live

Fail(L, why) == [L EXCEPT !.fault = why]

\* TileNode::contains (tilenode.h is not part of the sources; taken from the
\* data model: x <= px < x+width and y <= py < y+height).
contains(n, px, py) ==
    /\ n.x <= px /\ px < n.x + n.width
    /\ n.y <= py /\ py < n.y + n.height

\* Results of findTile that are not a pointer value.
FAULT == -1
HANG == -2

\* for(current = front; current != nullptr; current = current->next)
RECURSIVE findFrom(_, _, _, _, _)
findFrom(L, current, x, y, fuel) ==
    IF current = NULL THEN NULL
    ELSE IF ~Valid(L, current) THEN FAULT
    ELSE IF fuel = 0 THEN HANG
    ELSE IF contains(L.node[current], x, y) THEN current
    ELSE findFrom(L, L.node[current].next, x, y, fuel - 1)

\* Seeded fault: the scan starts at back and follows prev, so the tile
\* nearest the back wins.
RECURSIVE findFromBack(_, _, _, _, _)
findFromBack(L, current, x, y, fuel) ==
    IF current = NULL THEN NULL
    ELSE IF ~Valid(L, current) THEN FAULT
    ELSE IF fuel = 0 THEN HANG
    ELSE IF contains(L.node[current], x, y) THEN current
    ELSE findFromBack(L, L.node[current].prev, x, y, fuel - 1)

findTileBackmost(L, x, y) == findFromBack(L, L.back, x, y, MaxNodes)

findTile(L, x, y) == findFrom(L, L.front, x, y, MaxNodes)

\* Turn a failed findTile into the fault it stands for.
FindFault(L, t) ==
    IF t = FAULT THEN Fail(L, "deref")
    ELSE IF t = HANG THEN Fail(L, "hang")
    ELSE L

\* Seeded fault: for a tile that is not the front, front is moved past it
\* instead of relinking its predecessor.
detachTileDropsPrefix(L, tile) ==
    IF L.fault # "ok" THEN L
    ELSE IF ~Valid(L, tile) THEN Fail(L, "deref")
    ELSE
      LET L1 == [L EXCEPT !.front = L.node[tile].next]
      IN IF tile # L1.back
         THEN IF Valid(L1, L1.node[tile].next)
              THEN [L1 EXCEPT !.node[L1.node[tile].next].prev =
                                  L1.node[tile].prev]
              ELSE Fail(L1, "deref")
         ELSE [L1 EXCEPT !.back = L1.node[tile].prev]

\* Seeded fault: the test tile != front is missing, so the predecessor of
\* the front tile is dereferenced.
detachTileNoFrontCheck(L, tile) ==
    IF L.fault # "ok" THEN L
    ELSE IF ~Valid(L, tile) THEN Fail(L, "deref")
    ELSE
      LET L1 == IF Valid(L, L.node[tile].prev)
                THEN [L EXCEPT !.node[L.node[tile].prev].next =
                                   L.node[tile].next]
                ELSE Fail(L, "deref")
      IN IF L1.fault # "ok" THEN L1
         ELSE IF tile # L1.back
              THEN IF Valid(L1, L1.node[tile].next)
                   THEN [L1 EXCEPT !.node[L1.node[tile].next].prev =
                                       L1.node[tile].prev]
                   ELSE Fail(L1, "deref")
              ELSE [L1 EXCEPT !.back = L1.node[tile].prev]

detachTile(L, tile) ==
    IF L.fault # "ok" THEN L
    ELSE IF ~Valid(L, tile) THEN Fail(L, "deref")
    ELSE
      LET L1 == IF tile # L.front
                THEN IF Valid(L, L.node[tile].prev)
                     THEN [L EXCEPT !.node[L.node[tile].prev].next =
                                        L.node[tile].next]
                     ELSE Fail(L, "deref")
                ELSE [L EXCEPT !.front = L.node[tile].next]
      IN IF L1.fault # "ok" THEN L1
         ELSE IF tile # L1.back
              THEN IF Valid(L1, L1.node[tile].next)
                   THEN [L1 EXCEPT !.node[L1.node[tile].next].prev =
                                       L1.node[tile].prev]
                   ELSE Fail(L1, "deref")
              ELSE [L1 EXCEPT !.back = L1.node[tile].prev]

\* Seeded fault: newFront->next = front is missing.
attachFrontKeepsNext(L, newFront) ==
    IF L.fault # "ok" THEN L
    ELSE IF ~Valid(L, newFront) THEN Fail(L, "deref")
    ELSE
      LET L1 == [L EXCEPT !.node[newFront].prev = NULL]
      IN IF L1.front = NULL
         THEN [L1 EXCEPT !.front = newFront, !.back = newFront]
         ELSE IF ~Valid(L1, L1.front) THEN Fail(L1, "deref")
         ELSE LET L3 == [L1 EXCEPT !.node[L1.front].prev = newFront]
              IN [L3 EXCEPT !.front = newFront]

attachFront(L, newFront) ==
    IF L.fault # "ok" THEN L
    ELSE IF ~Valid(L, newFront) THEN Fail(L, "deref")
    ELSE
      LET L1 == [L EXCEPT !.node[newFront].prev = NULL]
      IN IF L1.front = NULL
         THEN [L1 EXCEPT !.front = newFront, !.back = newFront]
         ELSE IF ~Valid(L1, L1.front) THEN Fail(L1, "deref")
         ELSE LET L2 == [L1 EXCEPT !.node[newFront].next = L1.front]
                  L3 == [L2 EXCEPT !.node[L2.front].prev = newFront]
              IN [L3 EXCEPT !.front = newFront]

attachBack(L, newBack) ==
    IF L.fault # "ok" THEN L
    ELSE IF ~Valid(L, newBack) THEN Fail(L, "deref")
    ELSE
      LET L1 == [L EXCEPT !.node[newBack].next = NULL]
      IN IF L1.front = NULL
         THEN [L1 EXCEPT !.front = newBack, !.back = newBack]
         ELSE IF ~Valid(L1, L1.back) THEN Fail(L1, "deref")
         ELSE LET L2 == [L1 EXCEPT !.node[newBack].prev = L1.back]
                  L3 == [L2 EXCEPT !.node[L2.back].next = newBack]
              IN [L3 EXCEPT !.back = newBack]

\* new TileNode(x, y, width, height, color, nullptr, nullptr): the lowest
\* free heap cell; NULL when the heap is exhausted.
FreeAddrs(L) == { a \in Addrs : ~L.node[a].live }

newAddr(L) ==
    IF FreeAddrs(L) = {} THEN NULL
    ELSE CHOOSE a \in FreeAddrs(L) : \A b \in FreeAddrs(L) : a <= b

newTileNode(L, x, y, width, height, color) ==
    [L EXCEPT !.node[newAddr(L)] =
        [live |-> TRUE, x |-> x, y |-> y, width |-> width,
         height |-> height, color |-> color, prev |-> NULL, next |-> NULL]]

\* delete tile
deleteNode(L, tile) ==
    IF L.fault # "ok" THEN L
    ELSE IF ~Valid(L, tile) THEN Fail(L, "deref")
    ELSE [L EXCEPT !.node[tile] = FreeNode]

\* Seeded fault: a tile of non-positive width or height is rejected.
addFrontValidating(L, x, y, width, height, color) ==
    IF width <= 0 \/ height <= 0 THEN L
    ELSE attachFront(newTileNode(L, x, y, width, height, color), newAddr(L))

addFront(L, x, y, width, height, color) ==
    LET a == newAddr(L)
    IN attachFront(newTileNode(L, x, y, width, height, color), a)

addBack(L, x, y, width, height, color) ==
    LET a == newAddr(L)
    IN attachBack(newTileNode(L, x, y, width, height, color), a)

\* while(front != back) { current = front; front = front->next; delete current; }
RECURSIVE clearLoop(_, _)
clearLoop(L, fuel) ==
    IF L.fault # "ok" THEN L
    ELSE IF L.front = L.back THEN L
    ELSE IF fuel = 0 THEN Fail(L, "hang")
    ELSE IF ~Valid(L, L.front) THEN Fail(L, "deref")
    ELSE clearLoop(deleteNode([L EXCEPT !.front = L.node[L.front].next],
                              L.front),
                   fuel - 1)

\* Seeded fault: front and back are not reset after the loop.
clearNoReset(L) == clearLoop(L, MaxNodes)

clear(L) ==
    LET L1 == clearLoop(L, MaxNodes)
    IN IF L1.fault # "ok" THEN L1
       ELSE [L1 EXCEPT !.front = NULL, !.back = NULL]

\* for(current = back; current != nullptr; current = current->prev) draw
RECURSIVE drawFrom(_, _, _)
drawFrom(L, current, fuel) ==
    IF current = NULL THEN << >>
    ELSE IF ~Valid(L, current) THEN << FAULT >>
    ELSE IF fuel = 0 THEN << HANG >>
    ELSE << current >> \o drawFrom(L, L.node[current].prev, fuel - 1)

drawAll(L) == drawFrom(L, L.back, MaxNodes)

\* Seeded fault: the result of findTile is used without the null test.
highlightUnchecked(L, x, y) ==
    LET tile == findTile(L, x, y)
    IN IF tile < 0 THEN [L |-> FindFault(L, tile), ret |-> FALSE]
       ELSE IF ~Valid(L, tile) THEN [L |-> Fail(L, "deref"), ret |-> TRUE]
       ELSE [L |-> [L EXCEPT !.node[tile].color = "yellow"], ret |-> TRUE]

\* Seeded fault: the front tile is colored instead of the tile found.
highlightFront(L, x, y) ==
    LET tile == findTile(L, x, y)
    IN IF tile < 0 THEN [L |-> FindFault(L, tile), ret |-> FALSE]
       ELSE IF tile # NULL
            THEN [L |-> [L EXCEPT !.node[L.front].color = "yellow"],
                  ret |-> TRUE]
            ELSE [L |-> L, ret |-> FALSE]

highlight(L, x, y) ==
    LET tile == findTile(L, x, y)
    IN IF tile < 0 THEN [L |-> FindFault(L, tile), ret |-> FALSE]
       ELSE IF tile # NULL
            THEN [L |-> [L EXCEPT !.node[tile].color = "yellow"],
                  ret |-> TRUE]
            ELSE [L |-> L, ret |-> FALSE]

\* Seeded fault: the test tile != front is missing.
raiseAnyMatch(L, x, y) ==
    LET tile == findTile(L, x, y)
    IN IF tile < 0 THEN [L |-> FindFault(L, tile), ret |-> FALSE]
       ELSE IF tile # NULL
            THEN [L |-> attachFront(detachTile(L, tile), tile), ret |-> TRUE]
            ELSE [L |-> L, ret |-> FALSE]

\* Seeded fault: the tile nearest the back that contains (x,y) is raised.
raiseBackmost(L, x, y) ==
    LET tile == findTileBackmost(L, x, y)
    IN IF tile < 0 THEN [L |-> FindFault(L, tile), ret |-> FALSE]
       ELSE IF tile # NULL /\ tile # L.front
            THEN [L |-> attachFront(detachTile(L, tile), tile), ret |-> TRUE]
            ELSE [L |-> L, ret |-> FALSE]

\* Seeded fault: the tile is re-attached at the back.
raiseToBack(L, x, y) ==
    LET tile == findTile(L, x, y)
    IN IF tile < 0 THEN [L |-> FindFault(L, tile), ret |-> FALSE]
       ELSE IF tile # NULL /\ tile # L.front
            THEN [L |-> attachBack(detachTile(L, tile), tile), ret |-> TRUE]
            ELSE [L |-> L, ret |-> FALSE]

raise(L, x, y) ==
    LET tile == findTile(L, x, y)
    IN IF tile < 0 THEN [L |-> FindFault(L, tile), ret |-> FALSE]
       ELSE IF tile # NULL /\ tile # L.front
            THEN [L |-> attachFront(detachTile(L, tile), tile), ret |-> TRUE]
            ELSE [L |-> L, ret |-> FALSE]

\* Seeded fault: the test tile != back is missing.
lowerAnyMatch(L, x, y) ==
    LET tile == findTile(L, x, y)
    IN IF tile < 0 THEN [L |-> FindFault(L, tile), ret |-> FALSE]
       ELSE IF tile # NULL
            THEN [L |-> attachBack(detachTile(L, tile), tile), ret |-> TRUE]
            ELSE [L |-> L, ret |-> FALSE]

lower(L, x, y) ==
    LET tile == findTile(L, x, y)
    IN IF tile < 0 THEN [L |-> FindFault(L, tile), ret |-> FALSE]
       ELSE IF tile # NULL /\ tile # L.back
            THEN [L |-> attachBack(detachTile(L, tile), tile), ret |-> TRUE]
            ELSE [L |-> L, ret |-> FALSE]

\* Seeded fault: the tile is detached but not deleted.
removeNoDelete(L, x, y) ==
    LET tile == findTile(L, x, y)
    IN IF tile < 0 THEN [L |-> FindFault(L, tile), ret |-> FALSE]
       ELSE IF tile # NULL
            THEN [L |-> detachTile(L, tile), ret |-> TRUE]
            ELSE [L |-> L, ret |-> FALSE]

remove(L, x, y) ==
    LET tile == findTile(L, x, y)
    IN IF tile < 0 THEN [L |-> FindFault(L, tile), ret |-> FALSE]
       ELSE IF tile # NULL
            THEN [L |-> deleteNode(detachTile(L, tile), tile), ret |-> TRUE]
            ELSE [L |-> L, ret |-> FALSE]

\* for(tile = findTile(x,y); tile != nullptr; tile = findTile(x,y))
RECURSIVE removeAllLoop(_, _, _, _, _)
removeAllLoop(L, x, y, removed, fuel) ==
    LET tile == findTile(L, x, y)
    IN IF L.fault # "ok" THEN [L |-> L, ret |-> removed]
       ELSE IF tile < 0 THEN [L |-> FindFault(L, tile), ret |-> removed]
       ELSE IF tile = NULL THEN [L |-> L, ret |-> removed]
       ELSE IF fuel = 0 THEN [L |-> Fail(L, "hang"), ret |-> removed]
       ELSE removeAllLoop(deleteNode(detachTile(L, tile), tile),
                          x, y, removed + 1, fuel - 1)

\* Seeded fault: an if instead of the loop, so one tile at most is removed.
removeAllOnce(L, x, y) ==
    LET tile == findTile(L, x, y)
    IN IF tile < 0 THEN [L |-> FindFault(L, tile), ret |-> 0]
       ELSE IF tile # NULL
            THEN [L |-> deleteNode(detachTile(L, tile), tile), ret |-> 1]
            ELSE [L |-> L, ret |-> 0]

removeAll(L, x, y) == removeAllLoop(L, x, y, 0, MaxNodes)

Min(a, b) == IF a < b THEN a ELSE b
Max(a, b) == IF a > b THEN a ELSE b

\* Seeded fault: the tile is deleted before its geometry is read.
RECURSIVE mergeLoopDeleteFirst(_, _, _, _, _, _)
mergeLoopDeleteFirst(L, tile, x, y, box, fuel) ==
    IF L.fault # "ok" THEN [L |-> L, box |-> box]
    ELSE IF tile < 0 THEN [L |-> FindFault(L, tile), box |-> box]
    ELSE IF tile = NULL THEN [L |-> L, box |-> box]
    ELSE IF fuel = 0 THEN [L |-> Fail(L, "hang"), box |-> box]
    ELSE
      LET L1 == deleteNode(detachTile(L, tile), tile)
      IN IF L1.fault # "ok" THEN [L |-> L1, box |-> box]
         ELSE IF ~Valid(L1, tile) THEN [L |-> Fail(L1, "deref"), box |-> box]
         ELSE mergeLoopDeleteFirst(L1, findTile(L1, x, y), x, y, box,
                                   fuel - 1)

\* The loop of merge; box = [minX, maxX, minY, maxY].
RECURSIVE mergeLoop(_, _, _, _, _, _)
mergeLoop(L, tile, x, y, box, fuel) ==
    IF L.fault # "ok" THEN [L |-> L, box |-> box]
    ELSE IF tile < 0 THEN [L |-> FindFault(L, tile), box |-> box]
    ELSE IF tile = NULL THEN [L |-> L, box |-> box]
    ELSE IF fuel = 0 THEN [L |-> Fail(L, "hang"), box |-> box]
    ELSE
      LET L1 == detachTile(L, tile)
      IN IF L1.fault # "ok" THEN [L |-> L1, box |-> box]
         ELSE
           LET t == L1.node[tile]
               box1 == [minX |-> Min(t.x, box.minX),
                        maxX |-> Max(t.x + t.width, box.maxX),
                        minY |-> Min(t.y, box.minY),
                        maxY |-> Max(t.y + t.height, box.maxY)]
               L2 == deleteNode(L1, tile)
           IN mergeLoop(L2, findTile(L2, x, y), x, y, box1, fuel - 1)

\* Seeded fault: the new tile gets maxX and maxY as its width and height.
mergeMaxAsExtent(L, x, y) ==
    LET tile == findTile(L, x, y)
    IN IF tile < 0 THEN FindFault(L, tile)
       ELSE IF tile = NULL THEN L
       ELSE
         LET t == L.node[tile]
             color == t.color
             box0 == [minX |-> t.x, maxX |-> t.x + t.width,
                      minY |-> t.y, maxY |-> t.y + t.height]
             r == mergeLoop(L, tile, x, y, box0, MaxNodes)
         IN IF r.L.fault # "ok" THEN r.L
            ELSE addFront(r.L, r.box.minX, r.box.minY,
                          r.box.maxX, r.box.maxY, color)

\* Seeded fault: the early return for tile == nullptr is missing, so
\* tile->color is read through a null pointer.
mergeNoEarlyReturn(L, x, y) ==
    LET tile == findTile(L, x, y)
    IN IF tile < 0 THEN FindFault(L, tile)
       ELSE IF tile = NULL THEN Fail(L, "deref")
       ELSE
         LET t == L.node[tile]
             color == t.color
             box0 == [minX |-> t.x, maxX |-> t.x + t.width,
                      minY |-> t.y, maxY |-> t.y + t.height]
             r == mergeLoop(L, tile, x, y, box0, MaxNodes)
         IN IF r.L.fault # "ok" THEN r.L
            ELSE addFront(r.L, r.box.minX, r.box.minY,
                          r.box.maxX - r.box.minX, r.box.maxY - r.box.minY,
                          color)

\* Seeded fault: the merged tile is added at the back.
mergeAtBack(L, x, y) ==
    LET tile == findTile(L, x, y)
    IN IF tile < 0 THEN FindFault(L, tile)
       ELSE IF tile = NULL THEN L
       ELSE
         LET t == L.node[tile]
             color == t.color
             box0 == [minX |-> t.x, maxX |-> t.x + t.width,
                      minY |-> t.y, maxY |-> t.y + t.height]
             r == mergeLoop(L, tile, x, y, box0, MaxNodes)
         IN IF r.L.fault # "ok" THEN r.L
            ELSE addBack(r.L, r.box.minX, r.box.minY,
                         r.box.maxX - r.box.minX, r.box.maxY - r.box.minY,
                         color)

merge(L, x, y) ==
    LET tile == findTile(L, x, y)
    IN IF tile < 0 THEN FindFault(L, tile)
       ELSE IF tile = NULL THEN L
       ELSE
         LET t == L.node[tile]
             color == t.color
             box0 == [minX |-> t.x, maxX |-> t.x + t.width,
                      minY |-> t.y, maxY |-> t.y + t.height]
             r == mergeLoop(L, tile, x, y, box0, MaxNodes)
         IN IF r.L.fault # "ok" THEN r.L
            ELSE addFront(r.L, r.box.minX, r.box.minY,
                          r.box.maxX - r.box.minX, r.box.maxY - r.box.minY,
                          color)

----------------------------------------------------------------------------
\* State machine

\* TileList::TileList()
Init ==
    /\ node = [a \in Addrs |-> FreeNode]
    /\ front = NULL
    /\ back = NULL
    /\ fault = "ok"
    /\ op = "TileList"
    /\ ret = "void"
    /\ inflight = [c \in Callers |-> Idle]
    /\ yields = FALSE

\* The member functions may be called: nothing has faulted and the list has
\* not been destructed.
Callable == fault = "ok" /\ op # "~TileList"

StoreList(L) ==
    /\ node' = L.node
    /\ front' = L.front
    /\ back' = L.back
    /\ fault' = L.fault

\* A call that runs to completion.
Store(L) == StoreList(L) /\ UNCHANGED <<inflight, yields>>

\* ~TileList(): clear(); delete front; delete back (both nullptr by then).
deleteOrNull(L, p) == IF p = NULL THEN L ELSE deleteNode(L, p)

destructor(L) ==
    LET L1 == clear(L)
        L2 == deleteOrNull(L1, L1.front)
    IN deleteOrNull(L2, L2.back)

Destructor ==
    /\ Callable
    /\ op' = "~TileList"
    /\ Store(destructor(Cur))
    /\ ret' = "void"

AddFront(t) ==
    /\ Callable
    /\ op' = "addFront"
    /\ newAddr(Cur) # NULL
    /\ Store(addFront(Cur, t.x, t.y, t.width, t.height, t.color))
    /\ ret' = "void"

AddBack(t) ==
    /\ Callable
    /\ op' = "addBack"
    /\ newAddr(Cur) # NULL
    /\ Store(addBack(Cur, t.x, t.y, t.width, t.height, t.color))
    /\ ret' = "void"

Clear ==
    /\ Callable
    /\ op' = "clear"
    /\ Store(clear(Cur))
    /\ ret' = "void"

DrawAll ==
    /\ Callable
    /\ op' = "drawAll"
    /\ LET drawn == drawAll(Cur)
       IN /\ Store(IF \E i \in 1..Len(drawn) : drawn[i] < 0
                   THEN Fail(Cur, "deref") ELSE Cur)
          /\ ret' = drawn

\* The hit-test (findTile, exposed to callers as findByPoint).
FindTile(p) ==
    /\ Callable
    /\ op' = "findTile"
    /\ LET tile == findTile(Cur, p[1], p[2])
       IN /\ Store(FindFault(Cur, tile))
          /\ ret' = tile

Highlight(p) ==
    /\ Callable
    /\ op' = "highlight"
    /\ LET r == highlight(Cur, p[1], p[2])
       IN Store(r.L) /\ ret' = r.ret

Raise(p) ==
    /\ Callable
    /\ op' = "raise"
    /\ LET r == raise(Cur, p[1], p[2])
       IN Store(r.L) /\ ret' = r.ret

Lower(p) ==
    /\ Callable
    /\ op' = "lower"
    /\ LET r == lower(Cur, p[1], p[2])
       IN Store(r.L) /\ ret' = r.ret

Remove(p) ==
    /\ Callable
    /\ op' = "remove"
    /\ LET r == remove(Cur, p[1], p[2])
       IN Store(r.L) /\ ret' = r.ret

RemoveAll(p) ==
    /\ Callable
    /\ op' = "removeAll"
    /\ LET r == removeAll(Cur, p[1], p[2])
       IN Store(r.L) /\ ret' = r.ret

Merge(p) ==
    /\ Callable
    /\ op' = "merge"
    /\ Store(merge(Cur, p[1], p[2]))
    /\ ret' = "void"

Next ==
    \/ \E t \in InputTiles : AddFront(t)
    \/ \E t \in InputTiles : AddBack(t)
    \/ Clear
    \/ Destructor
    \/ DrawAll
    \/ \E p \in Points : FindTile(p)
    \/ \E p \in Points : Highlight(p)
    \/ \E p \in Points : Raise(p)
    \/ \E p \in Points : Lower(p)
    \/ \E p \in Points : Remove(p)
    \/ \E p \in Points : RemoveAll(p)
    \/ \E p \in Points : Merge(p)

Spec == Init /\ [][Next]_vars

----------------------------------------------------------------------------
\* Callers that share the list without the single-threaded discipline:
\* raise and remove as the three steps they consist of (findTile and the
\* test of its result, detachTile, then attachFront or delete), which other
\* callers' steps may come between when yields is TRUE.

\* No caller is inside a call.
Quiescent == \A c \in Callers : inflight[c] = Idle

\* The list with either discipline: one lock around every call, or none.
InitConc ==
    /\ node = [a \in Addrs |-> FreeNode]
    /\ front = NULL
    /\ back = NULL
    /\ fault = "ok"
    /\ op = "TileList"
    /\ ret = "void"
    /\ inflight = [c \in Callers |-> Idle]
    /\ yields \in BOOLEAN

\* The tiles and the points the sharing callers use: two overlapping tiles,
\* a point inside both and a point inside the first only.
ConcTiles == { t \in InputTiles : t.width > 0 }
ConcPoints == { <<6, 6>>, <<1, 1>> }
ConcOps == { "raise", "remove" }

\* addFront by a caller while no other call is in progress.
ConcAddFront(t) == Quiescent /\ AddFront(t)

\* TileNode* tile = findTile(x, y);
\* if(tile != nullptr [&& tile != front])
CallFind(c, o, p) ==
    /\ Callable
    /\ inflight[c] = Idle
    /\ yields \/ Quiescent
    /\ LET tile == findTile(Cur, p[1], p[2])
           enters == tile > NULL /\ (o = "raise" => tile # front)
       IN /\ StoreList(FindFault(Cur, tile))
          /\ inflight' = [inflight EXCEPT ![c] =
                 IF enters THEN [pc |-> "found", op |-> o, tile |-> tile]
                 ELSE Idle]
          /\ IF enters \/ tile < NULL
             THEN UNCHANGED <<op, ret>>
             ELSE op' = o /\ ret' = FALSE
    /\ UNCHANGED yields

\* detachTile(tile);
CallDetach(c) ==
    /\ Callable
    /\ inflight[c].pc = "found"
    /\ StoreList(detachTile(Cur, inflight[c].tile))
    /\ inflight' = [inflight EXCEPT ![c].pc = "detached"]
    /\ UNCHANGED <<op, ret, yields>>

\* attachFront(tile); return true;   or   delete tile; return true;
CallFinish(c) ==
    /\ Callable
    /\ inflight[c].pc = "detached"
    /\ op' = inflight[c].op
    /\ StoreList(IF inflight[c].op = "raise"
                 THEN attachFront(Cur, inflight[c].tile)
                 ELSE deleteNode(Cur, inflight[c].tile))
    /\ inflight' = [inflight EXCEPT ![c] = Idle]
    /\ ret' = TRUE
    /\ UNCHANGED yields

NextConc ==
    \/ \E t \in ConcTiles : ConcAddFront(t)
    \/ \E c \in Callers, o \in ConcOps, p \in ConcPoints :
           CallFind(c, o, p)
    \/ \E c \in Callers : CallDetach(c)
    \/ \E c \in Callers : CallFinish(c)

SpecConc == InitConc /\ [][NextConc]_vars

----------------------------------------------------------------------------
\* Vocabulary of the properties

\* The list value after the step.
CurNext == [node |-> node', front |-> front', back |-> back', fault |-> fault']

\* Addresses met by following next links from a, at most fuel of them.
RECURSIVE NextChain(_, _, _)
NextChain(L, a, fuel) ==
    IF a \notin Addrs \/ fuel = 0 THEN << >>
    ELSE << a >> \o NextChain(L, L.node[a].next, fuel - 1)

\* Addresses met by following prev links from a, at most fuel of them.
RECURSIVE PrevChain(_, _, _)
PrevChain(L, a, fuel) ==
    IF a \notin Addrs \/ fuel = 0 THEN << >>
    ELSE << a >> \o PrevChain(L, L.node[a].prev, fuel - 1)

\* The collection in front-to-back order.
Order(L) == NextChain(L, L.front, MaxNodes + 1)

Reverse(s) == [i \in 1..Len(s) |-> s[Len(s) + 1 - i]]

Range(s) == { s[i] : i \in 1..Len(s) }

LiveAddrs(L) == { a \in Addrs : L.node[a].live }

\* Geometry and color of the tile stored at address a.
TileAt(L, a) ==
    [x |-> L.node[a].x, y |-> L.node[a].y, width |-> L.node[a].width,
     height |-> L.node[a].height, color |-> L.node[a].color]

\* The tiles of the collection, front to back.
TileSeq(L) == LET s == Order(L) IN [i \in 1..Len(s) |-> TileAt(L, s[i])]

\* The rectangle of tile t contains point p.
Inside(t, p) ==
    /\ t.x <= p[1] /\ p[1] < t.x + t.width
    /\ t.y <= p[2] /\ p[2] < t.y + t.height

\* Positions, front to back, of the tiles that contain p.
Hits(L, p) ==
    LET s == Order(L) IN { i \in 1..Len(s) : Inside(TileAt(L, s[i]), p) }

\* The tile nearest the front that contains p, NULL when there is none.
FirstHit(L, p) ==
    LET h == Hits(L, p)
    IN IF h = {} THEN NULL
       ELSE Order(L)[CHOOSE i \in h : \A j \in h : i <= j]

\* The addresses of s whose tile does not contain p, in the order of s.
RECURSIVE Misses(_, _, _)
Misses(L, s, p) ==
    IF s = << >> THEN << >>
    ELSE IF Inside(TileAt(L, Head(s)), p) THEN Misses(L, Tail(s), p)
    ELSE << Head(s) >> \o Misses(L, Tail(s), p)

\* s without the address a.
RECURSIVE Without(_, _)
Without(s, a) ==
    IF s = << >> THEN << >>
    ELSE IF Head(s) = a THEN Without(Tail(s), a)
    ELSE << Head(s) >> \o Without(Tail(s), a)

\* Every address of s holds the same tile before and after the step.
SameTiles(s) == \A i \in 1..Len(s) : TileAt(CurNext, s[i]) = TileAt(Cur, s[i])

\* The list did not change in the step.
ListUnchanged == UNCHANGED <<node, front, back, fault>>

----------------------------------------------------------------------------
\* C1: in every reachable state and for every point, the hit-test returns
\* the tile nearest the front whose rectangle contains the point, and none
\* exactly when no tile of the collection contains it; a hit-test that has
\* just been called returned such a result.
C1_HitTestFirstMatch ==
    /\ \A p \in Points : findTile(Cur, p[1], p[2]) = FirstHit(Cur, p)
    /\ op = "findTile" => \E p \in Points : ret = FirstHit(Cur, p)

\* A hit-test returned a tile that has another tile containing the same
\* point behind it.
C1_Witness ==
    /\ op = "findTile"
    /\ ret # NULL
    /\ \E p \in Points : ret = FirstHit(Cur, p) /\ Cardinality(Hits(Cur, p)) >= 2

\* C2: the collection is a well-formed linear sequence: following next from
\* front visits every live tile exactly once and ends at back, following prev
\* from back visits the same tiles in reverse order (the order drawAll draws
\* them in), front has no predecessor, back has no successor, and front is
\* none iff back is none.
C2_WellFormed ==
    LET s == Order(Cur)
    IN /\ Len(s) <= MaxNodes
       /\ Range(s) = LiveAddrs(Cur)
       /\ \A i, j \in 1..Len(s) : i # j => s[i] # s[j]
       /\ s # << >> => s[Len(s)] = back
       /\ PrevChain(Cur, back, MaxNodes + 1) = Reverse(s)
       /\ drawAll(Cur) = Reverse(s)
       /\ front # NULL => node[front].prev = NULL
       /\ back # NULL => node[back].next = NULL
       /\ (front = NULL) <=> (back = NULL)

\* The part of C2 about the links alone: the same, for the tiles reachable
\* from front instead of every live tile.
C2_LinksWellFormed ==
    LET s == Order(Cur)
    IN /\ Len(s) <= MaxNodes
       /\ Range(s) \subseteq LiveAddrs(Cur)
       /\ \A i, j \in 1..Len(s) : i # j => s[i] # s[j]
       /\ s # << >> => s[Len(s)] = back
       /\ PrevChain(Cur, back, MaxNodes + 1) = Reverse(s)
       /\ drawAll(Cur) = Reverse(s)
       /\ front # NULL => node[front].prev = NULL
       /\ back # NULL => node[back].next = NULL
       /\ (front = NULL) <=> (back = NULL)

\* C3: raise(x,y) returns false and leaves the collection unchanged when no
\* tile contains (x,y) or the first tile containing it is already the front;
\* otherwise it returns true, that tile becomes the front tile and the number
\* of tiles is unchanged.
C3_RaiseStep(p) ==
    LET m == FirstHit(Cur, p)
    IN IF m = NULL \/ m = front
       THEN ret' = FALSE /\ ListUnchanged
       ELSE /\ ret' = TRUE
            /\ front' = m
            /\ TileAt(CurNext, m) = TileAt(Cur, m)
            /\ Len(Order(CurNext)) = Len(Order(Cur))
            /\ Range(Order(CurNext)) = Range(Order(Cur))
            /\ fault' = "ok"

C3_Raise == [][\A p \in Points : Raise(p) => C3_RaiseStep(p)]_vars

\* raise moved a tile to the front of a collection of at least three tiles.
C3_Witness == op = "raise" /\ ret = TRUE /\ Len(Order(Cur)) >= 3

\* C4: lower(x,y) returns false and leaves the collection unchanged when no
\* tile contains (x,y) or the first tile containing it is already the back;
\* otherwise it returns true, that tile becomes the back tile and the number
\* of tiles is unchanged.
C4_LowerStep(p) ==
    LET m == FirstHit(Cur, p)
    IN IF m = NULL \/ m = back
       THEN ret' = FALSE /\ ListUnchanged
       ELSE /\ ret' = TRUE
            /\ back' = m
            /\ TileAt(CurNext, m) = TileAt(Cur, m)
            /\ Len(Order(CurNext)) = Len(Order(Cur))
            /\ Range(Order(CurNext)) = Range(Order(Cur))
            /\ fault' = "ok"

C4_Lower == [][\A p \in Points : Lower(p) => C4_LowerStep(p)]_vars

\* lower moved a tile to the back of a collection of at least three tiles.
C4_Witness == op = "lower" /\ ret = TRUE /\ Len(Order(Cur)) >= 3

\* C5: remove(x,y) returns true exactly when some tile contains (x,y); then
\* exactly the first tile containing it is detached and destroyed, the size
\* decreases by one and every other tile stays; when it returns false the
\* collection is unchanged.
C5_RemoveStep(p) ==
    LET m == FirstHit(Cur, p)
    IN IF m = NULL
       THEN ret' = FALSE /\ ListUnchanged
       ELSE /\ ret' = TRUE
            /\ Order(CurNext) = Without(Order(Cur), m)
            /\ Len(Order(CurNext)) = Len(Order(Cur)) - 1
            /\ SameTiles(Order(CurNext))
            /\ ~node'[m].live
            /\ LiveAddrs(CurNext) = LiveAddrs(Cur) \ {m}
            /\ fault' = "ok"

C5_Remove == [][\A p \in Points : Remove(p) => C5_RemoveStep(p)]_vars

\* remove destroyed the only tile of the collection.
C5_Witness ==
    /\ op = "remove" /\ ret = TRUE
    /\ front = NULL /\ back = NULL

\* C6: removeAll(x,y) terminates and returns the number of tiles that
\* contained (x,y) before the call; afterwards no tile contains (x,y) and the
\* tiles that did not contain it remain in their original relative order.
C6_RemoveAllStep(p) ==
    /\ fault' = "ok"
    /\ ret' = Cardinality(Hits(Cur, p))
    /\ Hits(CurNext, p) = {}
    /\ Order(CurNext) = Misses(Cur, Order(Cur), p)
    /\ SameTiles(Order(CurNext))
    /\ LiveAddrs(CurNext) =
           LiveAddrs(Cur) \ { Order(Cur)[i] : i \in Hits(Cur, p) }

C6_RemoveAll == [][\A p \in Points : RemoveAll(p) => C6_RemoveAllStep(p)]_vars

\* removeAll drained three stacked tiles.
C6_Witness == op = "removeAll" /\ ret = 3

MinOf(S) == CHOOSE v \in S : \A w \in S : v <= w
MaxOf(S) == CHOOSE v \in S : \A w \in S : v >= w

\* The tiles of the collection that contain p.
HitTiles(L, p) == LET s == Order(L) IN { TileAt(L, s[i]) : i \in Hits(L, p) }

\* The minimal axis-aligned bounding box of the tiles containing p, in the
\* color of the one nearest the front.
MergedTile(L, p) ==
    LET h == HitTiles(L, p)
        left == MinOf({ t.x : t \in h })
        top == MinOf({ t.y : t \in h })
        right == MaxOf({ t.x + t.width : t \in h })
        bottom == MaxOf({ t.y + t.height : t \in h })
    IN [x |-> left, y |-> top, width |-> right - left,
        height |-> bottom - top, color |-> TileAt(L, FirstHit(L, p)).color]

\* C7: when at least one tile contains (x,y), merge(x,y) destroys exactly the
\* tiles containing (x,y) and inserts one new tile at the front whose
\* rectangle is the bounding box of the destroyed tiles and whose color is
\* that of the frontmost tile containing (x,y) before the call; the tiles not
\* containing (x,y) remain behind it in their original relative order.
C7_MergeStep(p) ==
    Hits(Cur, p) # {} =>
        LET rest == Misses(Cur, Order(Cur), p)
            after == Order(CurNext)
        IN /\ fault' = "ok"
           /\ after # << >>
           /\ Tail(after) = rest
           /\ SameTiles(rest)
           /\ Head(after) \notin Range(rest)
           /\ TileAt(CurNext, Head(after)) = MergedTile(Cur, p)
           /\ LiveAddrs(CurNext) = Range(after)
                  \cup (LiveAddrs(Cur) \ Range(Order(Cur)))

C7_Merge == [][\A p \in Points : Merge(p) => C7_MergeStep(p)]_vars

\* merge left exactly the tile (0,0,15,15,red) of the two overlapping squares.
C7_Witness ==
    /\ op = "merge"
    /\ TileSeq(Cur) = << [x |-> 0, y |-> 0, width |-> 15, height |-> 15,
                          color |-> "red"] >>

\* C8: when no tile of the collection contains (x,y), merge(x,y) is a no-op:
\* tiles, order, geometry, colors, front and back are unchanged and no tile
\* is created.
C8_MergeNoMatchStep(p) == Hits(Cur, p) = {} => ListUnchanged

C8_MergeNoMatch ==
    [][\A p \in Points : Merge(p) => C8_MergeNoMatchStep(p)]_vars

\* merge was called on a non-empty collection none of whose tiles contains
\* any of the query points (a merge that matched leaves a front tile that
\* contains its point).
C8_Witness ==
    /\ op = "merge"
    /\ front # NULL
    /\ \A p \in Points : Hits(Cur, p) = {}

\* One of the point operations is called at p.
PointCall(p) ==
    \/ FindTile(p) \/ Highlight(p) \/ Raise(p) \/ Lower(p)
    \/ Remove(p) \/ RemoveAll(p) \/ Merge(p)

\* C9: on an empty collection, for every point, the hit-test returns none,
\* highlight, raise, lower and remove return false, removeAll returns 0,
\* merge does nothing, the collection stays empty and nothing faults.
C9_EmptyStep(p) ==
    /\ FindTile(p) => ret' = NULL
    /\ Highlight(p) \/ Raise(p) \/ Lower(p) \/ Remove(p) => ret' = FALSE
    /\ RemoveAll(p) => ret' = 0
    /\ PointCall(p) => /\ front' = NULL /\ back' = NULL
                       /\ node' = node
                       /\ fault' = "ok"

C9_EmptyCollection ==
    [][front = NULL /\ back = NULL => \A p \in Points : C9_EmptyStep(p)]_vars

\* A point operation other than merge has just returned on a collection
\* that is empty (these leave an empty collection only if it was empty).
C9_Witness ==
    /\ op \in {"findTile", "highlight", "raise", "lower", "removeAll"}
    /\ front = NULL /\ back = NULL
    /\ op = "removeAll" => ret = 0

\* C10: after clear(), in any reachable state, the collection is empty with
\* front and back both none; clear() on an empty collection leaves it empty,
\* so a second clear() changes nothing.
C10_ClearStep ==
    /\ front' = NULL /\ back' = NULL
    /\ Order(CurNext) = << >>
    /\ fault' = "ok"
    /\ clear(CurNext) = CurNext
    /\ (front = NULL /\ back = NULL) => ListUnchanged

C10_Clear == [][Clear => C10_ClearStep]_vars

\* clear() has just emptied a collection that held a tile.
C10_Witness ==
    /\ op = "clear"
    /\ front = NULL /\ back = NULL
    /\ LiveAddrs(Cur) # {}

\* C11: the collection accounts for every tile record: at every operation
\* boundary each record created is either in the sequence or destroyed, once;
\* clear() and the destructor destroy every tile, the back tile included.
C11_Ownership ==
    /\ fault = "ok"
    /\ LiveAddrs(Cur) = Range(Order(Cur))
    /\ op \in {"clear", "~TileList"} => LiveAddrs(Cur) = {}

\* C12: highlight(x,y) returns true exactly when some tile contains (x,y);
\* then it sets the color of the first tile containing it to "yellow" and
\* changes nothing else (order, geometry, other colors, front, back); when it
\* returns false nothing changes.
C12_HighlightStep(p) ==
    LET m == FirstHit(Cur, p)
    IN IF m = NULL
       THEN ret' = FALSE /\ ListUnchanged
       ELSE /\ ret' = TRUE
            /\ node' = [node EXCEPT ![m].color = "yellow"]
            /\ front' = front /\ back' = back
            /\ fault' = "ok"

C12_Highlight == [][\A p \in Points : Highlight(p) => C12_HighlightStep(p)]_vars

\* highlight colored a tile that is not the front tile, and the front tile
\* is not yellow.
C12_Witness ==
    /\ op = "highlight" /\ ret = TRUE
    /\ \E i \in 2..Len(Order(Cur)) : TileSeq(Cur)[i].color = "yellow"
    /\ TileSeq(Cur)[1].color # "yellow"

\* A raise, lower or remove call at p.
Reorder(p) == Raise(p) \/ Lower(p) \/ Remove(p)

\* C13: for every raise, lower or remove call, any two tiles that are both
\* different from the moved / removed tile keep their relative front-to-back
\* order: the sequence without that tile is the same before and after.
C13_OrderStep(p) ==
    LET m == FirstHit(Cur, p)
    IN Without(Order(CurNext), m) = Without(Order(Cur), m)

C13_RelativeOrder == [][\A p \in Points : Reorder(p) => C13_OrderStep(p)]_vars

\* remove took a tile out of a collection and two tiles remain.
C13_Witness == op = "remove" /\ ret = TRUE /\ Len(Order(Cur)) = 2

\* Front-to-back neighbor pairs (tile, immediate successor) of s.
Pairs(s) == { << s[i], s[i + 1] >> : i \in 1..(Len(s) - 1) }

\* Those that do not involve the tile m.
PairsWithout(s, m) == { q \in Pairs(s) : q[1] # m /\ q[2] # m }

\* The pair (predecessor of m, successor of m) in s, if m has both.
Bridge(s, m) ==
    { << s[i], s[i + 2] >> : i \in { j \in 1..(Len(s) - 2) : s[j + 1] = m } }

\* C14 as stated: the set of neighbor pairs that do not involve the moved or
\* removed tile is the same after each raise, lower or remove call as before.
C14_PairsEqualStep(p) ==
    LET m == FirstHit(Cur, p)
    IN PairsWithout(Order(CurNext), m) = PairsWithout(Order(Cur), m)

C14_PairsEqual ==
    [][\A p \in Points : Reorder(p) => C14_PairsEqualStep(p)]_vars

\* C14 as amended: every neighbor pair that does not involve the moved or
\* removed tile is still a neighbor pair after the call, and the only pair
\* that can be new is (predecessor, successor) of that tile at the place it
\* was taken from.
C14_PairsKeptStep(p) ==
    LET m == FirstHit(Cur, p)
        old == PairsWithout(Order(Cur), m)
        new == PairsWithout(Order(CurNext), m)
    IN /\ old \subseteq new
       /\ new \ old \subseteq Bridge(Order(Cur), m)
       /\ Range(Order(CurNext)) \ {m} = Range(Order(Cur)) \ {m}

C14_PairsKept ==
    [][\A p \in Points : Reorder(p) => C14_PairsKeptStep(p)]_vars

\* lower moved a tile to the back and two other tiles are in front of it.
C14_Witness ==
    /\ op = "lower" /\ ret = TRUE
    /\ Len(Order(Cur)) = 3
    /\ Order(Cur)[3] = back

\* The tiles A behind the hit B at p that contain both p and q: the pairs
\* <<A, B>> of overlapping tiles with B in front of A, p in both and q in A.
Overlaps(p, q) ==
    { ab \in { << a, FirstHit(Cur, p) >> : a \in Range(Order(Cur)) } :
        /\ ab[1] # ab[2]
        /\ Inside(TileAt(Cur, ab[1]), p)
        /\ Inside(TileAt(Cur, ab[1]), q) }

\* C15 as stated: with B in front of A and p in both, the hit-test at p
\* returns B, and after raise at any point contained in A (p included) it
\* returns A.
C15_AnyPointOfAStep(p, q) ==
    \A ab \in Overlaps(p, q) :
        /\ findTile(Cur, p[1], p[2]) = ab[2]
        /\ findTile(CurNext, p[1], p[2]) = ab[1]

C15_AnyPointOfA ==
    [][\A q \in Points :
          Raise(q) => \A p \in Points : C15_AnyPointOfAStep(p, q)]_vars

\* C15 as amended: with B in front of A and p in both, the hit-test at p
\* returns B; after raise at a point of A that no tile in front of A contains
\* it returns A; after raise at a point of A that B contains too (such as p)
\* it does not return A.
C15_HitPriorityStep(p, q) ==
    \A ab \in Overlaps(p, q) :
        /\ findTile(Cur, p[1], p[2]) = ab[2]
        /\ FirstHit(Cur, q) = ab[1] =>
               findTile(CurNext, p[1], p[2]) = ab[1]
        /\ Inside(TileAt(Cur, ab[2]), q) =>
               findTile(CurNext, p[1], p[2]) # ab[1]

C15_HitPriority ==
    [][\A q \in Points :
          Raise(q) => \A p \in Points : C15_HitPriorityStep(p, q)]_vars

\* raise brought a tile to the front of a two-tile collection whose tiles
\* share a point.
C15_Witness ==
    /\ op = "raise" /\ ret = TRUE
    /\ Len(Order(Cur)) = 2
    /\ \E p \in Points : Hits(Cur, p) = {1, 2}

\* C16: addFront (addBack) never fails for any geometry, non-positive width
\* or height included: the size grows by one, the new tile with the supplied
\* geometry and color is the front (back) tile and the tiles already present
\* keep geometry, color and relative order.
C16_AddStep(t) ==
    LET s == Order(Cur)
        after == Order(CurNext)
    IN /\ AddFront(t) =>
            /\ fault' = "ok"
            /\ Len(after) = Len(s) + 1
            /\ front' = Head(after) /\ front' \notin Range(s)
            /\ TileAt(CurNext, front') = t
            /\ Tail(after) = s /\ SameTiles(s)
       /\ AddBack(t) =>
            /\ fault' = "ok"
            /\ Len(after) = Len(s) + 1
            /\ back' = after[Len(after)] /\ back' \notin Range(s)
            /\ TileAt(CurNext, back') = t
            /\ SubSeq(after, 1, Len(s)) = s /\ SameTiles(s)

C16_Add == [][\A t \in InputTiles : C16_AddStep(t)]_vars

\* addFront put a tile of non-positive extent in front of another tile.
C16_Witness ==
    /\ op = "addFront"
    /\ Len(Order(Cur)) >= 2
    /\ node[front].width <= 0 /\ node[front].height <= 0

\* C18: in every state reachable by complete calls nothing has dereferenced
\* a null or deleted pointer, every link of a tile of the collection is null
\* or points to a live tile of the collection, and a tile re-attached by
\* raise (lower) has no stale prev (next) link.
C18_PointerSafety ==
    LET s == Order(Cur)
    IN /\ fault = "ok"
       /\ \A a \in Range(s) :
            /\ node[a].live
            /\ node[a].next \in {NULL} \cup Range(s)
            /\ node[a].prev \in {NULL} \cup Range(s)
       /\ op = "raise" =>
            (ret = TRUE => /\ node[front].prev = NULL
                           /\ node[front].next = s[2]
                           /\ node[s[2]].prev = front)
       /\ op = "lower" =>
            (ret = TRUE => /\ node[back].next = NULL
                           /\ node[back].prev = s[Len(s) - 1]
                           /\ node[s[Len(s) - 1]].next = back)

\* merge has just replaced tiles by a merged tile in front of another tile.
C18_Witness ==
    /\ op = "merge"
    /\ Len(Order(Cur)) >= 2
    /\ node[front].width = 15

\* C19: raise(x,y) never changes the result of the hit-test at (x,y).
C19_RaiseKeepsHitStep(p) ==
    findTile(CurNext, p[1], p[2]) = findTile(Cur, p[1], p[2])

C19_RaiseKeepsHit ==
    [][\A p \in Points : Raise(p) => C19_RaiseKeepsHitStep(p)]_vars

\* raise moved a tile to the front, and a point of it is also in a tile
\* behind it.
C19_Witness ==
    /\ op = "raise" /\ ret = TRUE
    /\ Len(Order(Cur)) = 3
    /\ \E p \in Points : 1 \in Hits(Cur, p) /\ Cardinality(Hits(Cur, p)) >= 2

\* C20: after merge(x,y) in a state where some tile contains (x,y), exactly
\* one tile contains (x,y) and it is the front tile, and a second merge(x,y)
\* yields the same sequence of geometries and colors.
C20_MergeOnceStep(p) ==
    Hits(Cur, p) # {} =>
        /\ Hits(CurNext, p) = {1}
        /\ \A again \in {merge(CurNext, p[1], p[2])} :
              /\ again.fault = "ok"
              /\ TileSeq(again) = TileSeq(CurNext)

C20_MergeOnce == [][\A p \in Points : Merge(p) => C20_MergeOnceStep(p)]_vars

\* merge left one tile at the front that alone contains a point, with two
\* other tiles behind it.
C20_Witness ==
    /\ op = "merge"
    /\ Len(Order(Cur)) = 3
    /\ \E p \in Points : Hits(Cur, p) = {1}

====
